---- MODULE Spec2Model ----
(***************************************************************************)
(* Model of mat_display.py: the isoline bucketing (find_row_order), the    *)
(* pattern assembly (generate_crochet_pattern), the column solve           *)
(* (find_column_order) and the queue-polling driver loop.                  *)
(*                                                                         *)
(* Arithmetic is exact.  Field values and the spacing w are integers in a  *)
(* common unit u (a real input whose values are multiples of u), so the    *)
(* test |d - t| < w/2 is written 2*|d - t| < w.  Vertex indices are the    *)
(* source's 0-based indices; distances[i] is the (i+1)-th element of the   *)
(* sequence that models the array.  A mesh is represented by its scalar    *)
(* field: vertex i is the index i, the number of vertices is the length of *)
(* the field, and vertex positions (read only by the plot and the external *)
(* solver) are left out.                                                   *)
(***************************************************************************)
EXTENDS Integers, Sequences, FiniteSets, TLC

VARIABLES fn_distances, fn_w, fn_rows, fn_pattern,
          queue, pc, exc, distances, row_order, row_idx, column_orders,
          solves, file, pushed

fn_vars == <<fn_distances, fn_w, fn_rows, fn_pattern>>
drv_vars == <<queue, pc, exc, distances, row_order, row_idx, column_orders,
              solves, file, pushed>>
vars == <<fn_distances, fn_w, fn_rows, fn_pattern,
          queue, pc, exc, distances, row_order, row_idx, column_orders,
          solves, file, pushed>>

----------------------------------------------------------------------------
(* Bounds of the function-level inputs *)
MaxN == 4
MaxVal == 4
MaxNegVal == 1
MaxW == 3
MaxNegW == 1

Values == (0 - MaxNegVal)..MaxVal
Spacings == (0 - MaxNegW)..MaxW

SeqsUpTo(S, n) == UNION {[1..k -> S] : k \in 0..n}

Fields == SeqsUpTo(Values, MaxN)

----------------------------------------------------------------------------
(* numpy helpers as the source uses them *)

Abs(x) == IF x < 0 THEN 0 - x ELSE x

\* ceil(a / b), b # 0
CeilDiv(a, b) == IF b > 0 THEN 0 - ((0 - a) \div b) ELSE 0 - (a \div (0 - b))

RECURSIVE MaxFrom(_, _)
MaxFrom(d, i) ==
    IF i = Len(d) THEN d[i]
    ELSE LET m == MaxFrom(d, i + 1) IN IF d[i] >= m THEN d[i] ELSE m

\* np.max(distances), distances non-empty
NpMax(d) == MaxFrom(d, 1)

RECURSIVE MinFrom(_, _)
MinFrom(d, i) ==
    IF i = Len(d) THEN d[i]
    ELSE LET m == MinFrom(d, i + 1) IN IF d[i] <= m THEN d[i] ELSE m

NpMin(d) == MinFrom(d, 1)

\* np.argmin takes the last minimal element
ArgMinLast(d) ==
    CHOOSE i \in 0..(Len(d) - 1) :
        /\ d[i + 1] = NpMin(d)
        /\ \A j \in 0..(Len(d) - 1) : d[j + 1] = NpMin(d) => j <= i

\* np.argmin(distances): 0-based index of the first occurrence of the minimum
ArgMin(d) ==
    CHOOSE i \in 0..(Len(d) - 1) :
        /\ d[i + 1] = NpMin(d)
        /\ \A j \in 0..(i - 1) : d[j + 1] # NpMin(d)

\* np.argmax(distances): first occurrence of the maximum
ArgMax(d) ==
    CHOOSE i \in 0..(Len(d) - 1) :
        /\ d[i + 1] = NpMax(d)
        /\ \A j \in 0..(i - 1) : d[j + 1] # NpMax(d)

\* len(np.arange(0, stop, step)) = max(ceil((stop - 0) / step), 0), step # 0
ArangeLen(stop, step) ==
    IF CeilDiv(stop, step) > 0 THEN CeilDiv(stop, step) ELSE 0

\* np.arange stopping one element early
ArangeShort(stop, step) ==
    [k \in 1..(IF ArangeLen(stop, step) > 0 THEN ArangeLen(stop, step) - 1 ELSE 0)
        |-> (k - 1) * step]

\* np.arange(0, stop, step): the values 0 + k*step, k = 0 .. len-1
Arange(stop, step) == [k \in 1..ArangeLen(stop, step) |-> (k - 1) * step]

----------------------------------------------------------------------------
(* find_row_order *)

\* tolerance test with the boundary included
CloseInclusive(d, t, w) == 2 * Abs(d - t) <= w

\* np.abs(distances[i] - isoline_value) < w / 2
Close(d, t, w) == 2 * Abs(d - t) < w

RECURSIVE RowFrom(_, _, _, _)
\* the list comprehension of lines 60-68, from index i upwards
RowFrom(d, t, w, i) ==
    IF i >= Len(d) THEN <<>>
    ELSE (IF Close(d[i + 1], t, w)
          THEN <<[vert_index |-> i, raw_distance |-> d[i + 1], reg_distance |-> t]>>
          ELSE <<>>) \o RowFrom(d, t, w, i + 1)

Row(d, t, w) == RowFrom(d, t, w, 0)

\* row_order with the empty buckets left out
RowOrderSkipEmpty(d, w) ==
    LET NonEmpty(t) == Row(d, t, w) # <<>>
        ts == SelectSeq(Arange(NpMax(d), w), NonEmpty)
    IN [k \in 1..Len(ts) |-> Row(d, ts[k], w)]

\* row_order as built by the loop of lines 57-69
RowOrder(d, w) ==
    LET ts == Arange(NpMax(d), w)
    IN [k \in 1..Len(ts) |-> Row(d, ts[k], w)]

\* find_row_order(vertices, faces, distances, w): np.max of an empty array
\* and np.arange with a zero step raise; everything else returns row_order
find_row_order(d, w) ==
    IF Len(d) = 0 \/ w = 0 THEN [kind |-> "raise", rows |-> <<>>]
    ELSE [kind |-> "return", rows |-> RowOrder(d, w)]

----------------------------------------------------------------------------
(* generate_crochet_pattern *)

\* instructions: one stitch per vertex, in index order
Stitches(d) == [k \in 1..Len(d) |-> [vertex_index |-> k - 1, distance |-> d[k]]]

\* row edges appended for every i, the first one included
RowEdgesFromZero(n) == [k \in 1..n |-> <<k - 2, k - 1>>]

\* row_edges: (i-1, i) appended for every i > 0
RowEdges(n) == [k \in 1..(IF n > 0 THEN n - 1 ELSE 0) |-> <<k - 1, k>>]

\* col edges joining the outer endpoints of consecutive row edges
ColEdgesOuter(re) ==
    [j \in 1..(IF Len(re) > 0 THEN Len(re) - 1 ELSE 0) |-> <<re[j][1], re[j + 1][2]>>]

\* zip(row_edges[:-1], row_edges[1:]) -> (start[1], end[0])
ColEdges(re) ==
    [j \in 1..(IF Len(re) > 0 THEN Len(re) - 1 ELSE 0) |-> <<re[j][2], re[j + 1][1]>>]

NoPattern == [kind |-> "raise", seed_vertex |-> 0, row_edges |-> <<>>,
              col_edges |-> <<>>, stitches |-> <<>>]

\* generate_crochet_pattern(vertices, faces, distances): np.argmin of an
\* empty array raises
generate_crochet_pattern(d) ==
    IF Len(d) = 0 THEN NoPattern
    ELSE [kind |-> "return",
          seed_vertex |-> ArgMin(d),
          row_edges |-> RowEdges(Len(d)),
          col_edges |-> ColEdges(RowEdges(Len(d))),
          stitches |-> Stitches(d)]

----------------------------------------------------------------------------
(* Function-level specification: the inputs are drawn in Init and the two  *)
(* functions are applied to them, in the order the driver calls them       *)
(* (line 120, then line 146).                                              *)

NotCalled == [kind |-> "none", rows |-> <<>>]
NotAssembled == [kind |-> "none", seed_vertex |-> 0, row_edges |-> <<>>,
                 col_edges |-> <<>>, stitches |-> <<>>]

DrvIdle ==
    /\ queue = <<>>
    /\ pc = "poll"
    /\ exc = "none"
    /\ distances = <<>>
    /\ row_order = <<>>
    /\ row_idx = 0
    /\ column_orders = <<>>
    /\ solves = <<>>
    /\ file = NotAssembled
    /\ pushed = 0

InitFn ==
    /\ fn_distances \in Fields
    /\ fn_w \in Spacings
    /\ fn_rows = NotCalled
    /\ fn_pattern = NotAssembled
    /\ DrvIdle

CallFindRowOrder ==
    /\ fn_rows.kind = "none"
    /\ fn_rows' = find_row_order(fn_distances, fn_w)
    /\ UNCHANGED <<fn_distances, fn_w, fn_pattern>>
    /\ UNCHANGED drv_vars

CallGenerateCrochetPattern ==
    /\ fn_rows.kind # "none"
    /\ fn_pattern.kind = "none"
    /\ fn_pattern' = generate_crochet_pattern(fn_distances)
    /\ UNCHANGED <<fn_distances, fn_w, fn_rows>>
    /\ UNCHANGED drv_vars

NextFn == CallFindRowOrder \/ CallGenerateCrochetPattern

SpecFn == InitFn /\ [][NextFn]_vars

----------------------------------------------------------------------------
(* The driver loop (lines 112-155).  Field values of queue items are in    *)
(* hundredths, so the driver's spacing 0.03 is 3.                          *)

DriverW == 3

(* Bounds of the driver *)
QMaxN == 4
QMaxVal == 4
MaxItems == 2
MaxQueue == 1

\* the payloads a producer may push: one field value per vertex, the vertices
\* numbered by non-decreasing field value (this keeps the payload set small)
Payloads ==
    {d \in SeqsUpTo(0..QMaxVal, QMaxN) :
        \A i \in 1..(Len(d) - 1) : d[i] <= d[i + 1]}

\* what scipy.optimize.minimize can do on a row of n vertices: return an
\* OptimizeResult with success True or False, or let an exception of the
\* objective through.  The vector x is kept by its length only.
SolverOutcomes(n) ==
    {[raised |-> FALSE, success |-> TRUE, x |-> [len |-> n]],
     [raised |-> FALSE, success |-> FALSE, x |-> [len |-> n]],
     [raised |-> TRUE, success |-> FALSE, x |-> [len |-> 0]]}

\* find_column_order(vertices, f_values, boundary_indices): returns result.x
\* whatever result.success is; an exception passes through
find_column_order(result) ==
    IF result.raised THEN [kind |-> "raise", x |-> [len |-> 0]]
    ELSE [kind |-> "return", x |-> result.x]

Init ==
    /\ fn_distances = <<>>
    /\ fn_w = DriverW
    /\ fn_rows = NotCalled
    /\ fn_pattern = NotAssembled
    /\ DrvIdle

\* An external producer pushes a payload on the redis list.  The loop reads
\* the list only in r.lpop, so pushes are taken at the polling point.
Push ==
    /\ pc = "poll"
    /\ pushed < MaxItems
    /\ Len(queue) < MaxQueue
    /\ \E d \in Payloads : queue' = Append(queue, d)
    /\ pushed' = pushed + 1
    /\ UNCHANGED <<pc, exc, distances, row_order, row_idx, column_orders,
                   solves, file>>
    /\ UNCHANGED fn_vars

\* lines 113, 153-155: the queue is empty, sleep and poll again
PollEmpty ==
    /\ pc = "poll"
    /\ queue = <<>>
    /\ UNCHANGED drv_vars
    /\ UNCHANGED fn_vars

\* lines 113-120: pop an item, decode it, call find_row_order with w = 0.03
Poll ==
    /\ pc = "poll"
    /\ queue # <<>>
    /\ queue' = Tail(queue)
    /\ distances' = Head(queue)
    /\ LET res == find_row_order(Head(queue), DriverW)
       IN IF res.kind = "raise"
          THEN /\ pc' = "exit"
               /\ exc' = "find_row_order"
               /\ UNCHANGED row_order
          ELSE /\ pc' = "plot"
               /\ row_order' = res.rows
               /\ UNCHANGED exc
    /\ UNCHANGED <<row_idx, column_orders, solves, file, pushed>>
    /\ UNCHANGED fn_vars

\* lines 122-135: the scatter plot of every bucket; indexing the array built
\* from an empty bucket with [:, 0] raises IndexError.  Then column_orders
\* starts empty.
Plot ==
    /\ pc = "plot"
    /\ IF \E k \in 1..Len(row_order) : row_order[k] = <<>>
       THEN /\ pc' = "exit"
            /\ exc' = "plot"
            /\ UNCHANGED <<row_idx, column_orders, solves>>
       ELSE /\ pc' = "columns"
            /\ row_idx' = 1
            /\ column_orders' = <<>>
            /\ solves' = <<>>
            /\ UNCHANGED exc
    /\ UNCHANGED <<queue, distances, row_order, file, pushed>>
    /\ UNCHANGED fn_vars

\* lines 136-137: a row with fewer than 2 vertices is passed over
ColumnSkip ==
    /\ pc = "columns"
    /\ row_idx <= Len(row_order)
    /\ Len(row_order[row_idx]) <= 1
    /\ row_idx' = row_idx + 1
    /\ UNCHANGED <<queue, pc, exc, distances, row_order, column_orders, solves,
                   file, pushed>>
    /\ UNCHANGED fn_vars

\* lines 137-143: the column solve of one row; solves records, for each
\* vector appended to column_orders, the row and the solver's success flag
ColumnSolve ==
    /\ pc = "columns"
    /\ row_idx <= Len(row_order)
    /\ Len(row_order[row_idx]) > 1
    /\ \E result \in SolverOutcomes(Len(row_order[row_idx])) :
          LET g_values == find_column_order(result)
          IN IF g_values.kind = "raise"
             THEN /\ pc' = "exit"
                  /\ exc' = "find_column_order"
                  /\ UNCHANGED <<row_idx, column_orders, solves>>
             ELSE /\ column_orders' = Append(column_orders, g_values.x)
                  /\ solves' = Append(solves, [row |-> row_idx,
                                               success |-> result.success])
                  /\ row_idx' = row_idx + 1
                  /\ UNCHANGED <<pc, exc>>
    /\ UNCHANGED <<queue, distances, row_order, file, pushed>>
    /\ UNCHANGED fn_vars

\* lines 146-152: assemble the pattern, write it to the file, show the plot
\* and go back to polling
Assemble ==
    /\ pc = "columns"
    /\ row_idx > Len(row_order)
    /\ LET instructions == generate_crochet_pattern(distances)
       IN IF instructions.kind = "raise"
          THEN /\ pc' = "exit"
               /\ exc' = "generate_crochet_pattern"
               /\ UNCHANGED file
          ELSE /\ pc' = "poll"
               /\ file' = instructions
               /\ UNCHANGED exc
    /\ UNCHANGED <<queue, distances, row_order, row_idx, column_orders, solves,
                   pushed>>
    /\ UNCHANGED fn_vars

Next == Push \/ PollEmpty \/ Poll \/ Plot \/ ColumnSkip \/ ColumnSolve \/ Assemble

Spec == Init /\ [][Next]_vars

----------------------------------------------------------------------------
(* Properties of find_row_order and generate_crochet_pattern *)

N == Len(fn_distances)
Returned == fn_rows.kind = "return"
Assembled == fn_pattern.kind = "return"

\* the vertex indices listed in bucket k of the result
BucketVerts(k) == {fn_rows.rows[k][j].vert_index : j \in 1..Len(fn_rows.rows[k])}

\* the buckets of the result that list vertex v
BucketsOf(v) == {k \in 1..Len(fn_rows.rows) : v \in BucketVerts(k)}

\* twice the field value is an odd multiple of w (the value is an odd
\* multiple of w/2), w > 0
OddHalfMultiple(d, w) == (2 * d) % w = 0 /\ ((2 * d) \div w) % 2 = 1

\* C1: for N >= 2 the pattern has exactly N stitches, N-1 row_edges and N-2
\* col_edges, so len(row_edges) = len(stitches) - 1 and
\* len(col_edges) = len(row_edges) - 1.
C1_EdgeCounts ==
    (Assembled /\ N >= 2) =>
        /\ Len(fn_pattern.stitches) = N
        /\ Len(fn_pattern.row_edges) = N - 1
        /\ Len(fn_pattern.col_edges) = N - 2
        /\ Len(fn_pattern.row_edges) = Len(fn_pattern.stitches) - 1
        /\ Len(fn_pattern.col_edges) = Len(fn_pattern.row_edges) - 1

C1_Witness ==
    /\ Assembled
    /\ N >= 3
    /\ Len(fn_pattern.stitches) = N
    /\ Len(fn_pattern.col_edges) = N - 2

\* C2: for a non-empty field the seed vertex carries the global minimum of
\* the field and is the lowest index that does.
C2_SeedIsFirstArgmin ==
    (fn_pattern.kind # "none" /\ N >= 1) =>
        /\ Assembled
        /\ fn_pattern.seed_vertex \in 0..(N - 1)
        /\ \A j \in 0..(N - 1) :
              /\ fn_distances[fn_pattern.seed_vertex + 1] <= fn_distances[j + 1]
              /\ j < fn_pattern.seed_vertex =>
                    fn_distances[fn_pattern.seed_vertex + 1] < fn_distances[j + 1]

C2_Witness ==
    /\ Assembled
    /\ fn_pattern.seed_vertex > 0
    /\ \E j \in 0..(N - 1) :
          /\ j > fn_pattern.seed_vertex
          /\ fn_distances[j + 1] = fn_distances[fn_pattern.seed_vertex + 1]

\* C3 as claimed: for w > 0 every vertex whose field value is below the
\* maximum is listed in at least one bucket.
C3_Original ==
    (Returned /\ fn_w > 0) =>
        \A v \in 0..(N - 1) :
            fn_distances[v + 1] < NpMax(fn_distances) => BucketsOf(v) # {}

\* C3 as amended: for w > 0 every vertex whose field value lies strictly
\* between -w/2 and max(field) - w/2 and is not an odd multiple of w/2 is
\* listed in at least one bucket.
C3_Coverage ==
    (Returned /\ fn_w > 0) =>
        \A v \in 0..(N - 1) :
            ( /\ 2 * fn_distances[v + 1] > 0 - fn_w
              /\ 2 * fn_distances[v + 1] < 2 * NpMax(fn_distances) - fn_w
              /\ ~OddHalfMultiple(fn_distances[v + 1], fn_w) )
            => BucketsOf(v) # {}

C3_Witness ==
    /\ Returned
    /\ fn_w > 0
    /\ \E v \in 0..(N - 1) :
          /\ 2 * fn_distances[v + 1] > 0 - fn_w
          /\ 2 * fn_distances[v + 1] < 2 * NpMax(fn_distances) - fn_w
          /\ ~OddHalfMultiple(fn_distances[v + 1], fn_w)
          /\ fn_distances[v + 1] % fn_w # 0
          /\ BucketsOf(v) # {}
    /\ \E u \in 0..(N - 1) :
          /\ fn_distances[u + 1] < NpMax(fn_distances)
          /\ BucketsOf(u) = {}

\* C4: for w > 0 the result has one bucket for each k >= 0 with
\* k*w < max(field), in increasing order of k*w; bucket k lists exactly the
\* vertices within tolerance of k*w (possibly none, and then it is still
\* there), and inside a bucket the vertex indices are strictly increasing.
C4_BucketPerIsoline ==
    (Returned /\ fn_w > 0) =>
        /\ Len(fn_rows.rows) =
              Cardinality({k \in 0..NpMax(fn_distances) :
                              k * fn_w < NpMax(fn_distances)})
        /\ \A k \in 1..Len(fn_rows.rows) :
              /\ (k - 1) * fn_w < NpMax(fn_distances)
              /\ BucketVerts(k) =
                    {v \in 0..(N - 1) :
                        2 * Abs(fn_distances[v + 1] - (k - 1) * fn_w) < fn_w}
              /\ \A j \in 1..Len(fn_rows.rows[k]) :
                    /\ fn_rows.rows[k][j].reg_distance = (k - 1) * fn_w
                    /\ fn_rows.rows[k][j].raw_distance =
                          fn_distances[fn_rows.rows[k][j].vert_index + 1]
                    /\ j > 1 => fn_rows.rows[k][j - 1].vert_index
                                    < fn_rows.rows[k][j].vert_index

C4_Witness ==
    /\ Returned
    /\ fn_w > 0
    /\ \E k \in 1..Len(fn_rows.rows) :
          /\ fn_rows.rows[k] = <<>>
          /\ \E m \in (k + 1)..Len(fn_rows.rows) : Len(fn_rows.rows[m]) >= 2

\* The scenario of C5 in the unit u = 0.5: field [0,1,1,2], w = 0.5
C5_Scenario ==
    /\ fn_distances = <<0, 2, 2, 4>>
    /\ fn_w = 1
    /\ fn_rows.kind # "none"
    /\ fn_pattern.kind # "none"

\* C5 as claimed: the isoline values are exactly [0, 0.5] (two buckets), the
\* bucket of 0 lists vertex 0 only, the bucket of 0.5 is empty, and the seed
\* vertex is 0.
C5_Original ==
    C5_Scenario =>
        /\ Returned
        /\ Len(fn_rows.rows) = 2
        /\ BucketVerts(1) = {0}
        /\ fn_rows.rows[2] = <<>>
        /\ Assembled
        /\ fn_pattern.seed_vertex = 0

\* C5 as amended: the isoline values are [0, 0.5, 1.0, 1.5] (four buckets),
\* the bucket of 0 lists vertex 0 only, the bucket of 0.5 is empty, the
\* bucket of 1.0 lists vertices 1 and 2, the bucket of 1.5 is empty, and the
\* seed vertex is 0.
C5_FourBuckets ==
    C5_Scenario =>
        /\ Returned
        /\ Len(fn_rows.rows) = 4
        /\ fn_rows.rows[1] =
              <<[vert_index |-> 0, raw_distance |-> 0, reg_distance |-> 0]>>
        /\ fn_rows.rows[2] = <<>>
        /\ fn_rows.rows[3] =
              <<[vert_index |-> 1, raw_distance |-> 2, reg_distance |-> 2],
                [vert_index |-> 2, raw_distance |-> 2, reg_distance |-> 2]>>
        /\ fn_rows.rows[4] = <<>>
        /\ Assembled
        /\ fn_pattern.seed_vertex = 0

C5_Witness == C5_Scenario /\ Returned /\ Assembled /\ Len(fn_rows.rows) = 4

\* C6: for w <= 0 find_row_order signals a failure and never returns a list
\* of buckets.
C6_NonPositiveWRejected ==
    (fn_w <= 0 /\ fn_rows.kind # "none") => fn_rows.kind = "raise"

\* C9: row_edges is (0,1),(1,2),...,(N-2,N-1); col_edges[j] joins the second
\* endpoint of row_edges[j] to the first endpoint of row_edges[j+1], so it is
\* (j+1, j+1) for 0-based j and never joins two different vertices.
C9_EdgeShape ==
    Assembled =>
        /\ Len(fn_pattern.row_edges) = N - 1
        /\ \A k \in 1..Len(fn_pattern.row_edges) :
              fn_pattern.row_edges[k] = <<k - 1, k>>
        /\ \A j \in 1..(N - 2) :
              /\ j \in DOMAIN fn_pattern.col_edges
              /\ fn_pattern.col_edges[j] =
                    <<fn_pattern.row_edges[j][2], fn_pattern.row_edges[j + 1][1]>>
              /\ fn_pattern.col_edges[j] = <<j, j>>
        /\ \A j \in DOMAIN fn_pattern.col_edges :
              fn_pattern.col_edges[j][1] = fn_pattern.col_edges[j][2]

C9_Witness ==
    /\ Assembled
    /\ N = MaxN
    /\ Len(fn_pattern.col_edges) >= 2
    /\ fn_pattern.col_edges[2] = <<2, 2>>

\* find_row_order(d, w) lists some vertex in two different buckets
DoubleListed(d, w) ==
    LET res == find_row_order(d, w)
    IN /\ res.kind = "return"
       /\ \E k, m \in 1..Len(res.rows) :
             /\ k # m
             /\ \E i \in 1..Len(res.rows[k]), j \in 1..Len(res.rows[m]) :
                   res.rows[k][i].vert_index = res.rows[m][j].vert_index

\* C10 as claimed: some input with w > 0 puts one vertex in two different
\* buckets of the same result.
C10_Original ==
    \E d \in Fields \cup {fn_distances} :
        \E w \in {x \in (1..MaxW) \cup {fn_w} : x > 0} : DoubleListed(d, w)

\* C10 as amended: for w > 0 no vertex is listed in two different buckets of
\* the same result, nor twice in one bucket.
C10_AtMostOneBucket ==
    (Returned /\ fn_w > 0) =>
        \A v \in 0..(N - 1) :
            /\ Cardinality(BucketsOf(v)) <= 1
            /\ \A k \in 1..Len(fn_rows.rows) :
                  Cardinality({j \in 1..Len(fn_rows.rows[k]) :
                                  fn_rows.rows[k][j].vert_index = v}) <= 1

\* a vertex exactly midway between two emitted isoline values, where the two
\* tolerance windows meet
C10_Witness ==
    /\ Returned
    /\ fn_w > 0
    /\ \E v \in 0..(N - 1) :
          /\ \E k \in 1..(Len(fn_rows.rows) - 1) :
                2 * fn_distances[v + 1] = (2 * k - 1) * fn_w
          /\ BucketsOf(v) = {}
    /\ \E u \in 0..(N - 1) : Cardinality(BucketsOf(u)) = 1

----------------------------------------------------------------------------
(* Properties of the driver loop *)

C8_SolveFailureNotFatal ==
    ~(pc = "exit" /\ exc = "find_column_order")

====
